---- MODULE Spec2Model ----
(***************************************************************************)
(* Model of the PiePay offer service (src/server.js): POST /offer ingests  *)
(* a Flipkart offer payload into the MySQL table `offers`,                 *)
(* GET /highest-discount selects the best discount for a payment.          *)
(*                                                                         *)
(* Strings are sequences of one-character strings, so that replace(),      *)
(* toLowerCase(), toUpperCase() and parseFloat() are computed character by *)
(* character.  JavaScript values whose truthiness or absence matters are   *)
(* tagged records (Undefined, Null, Num, Str, Obj, Arr).                   *)
(* Money is an integer count of thousandths, see Units.                    *)
(***************************************************************************)
EXTENDS Integers, Sequences, FiniteSets, TLC

VARIABLES
    store,      \* the rows of the table `offers`
    last,       \* the request served last, with its response
    served,     \* the number of requests served
    descs,      \* normalizer: the two descriptions given
    ids,        \* normalizer: createOfferId of each description
    reids,      \* normalizer: createOfferId of each id
    npc         \* normalizer: "off", "start", "normalized" or "done"

vars == <<store, last, served, descs, ids, reids, npc>>

----------------------------------------------------------------------------
(* Bounds of the model *)

MaxOffers == 2

MaxRequests == 2

MaxRows == 2

MaxLen == 3

----------------------------------------------------------------------------
(* JavaScript values *)

Undefined == [t |-> "undefined"]

Null == [t |-> "null"]

Num(n) == [t |-> "num", n |-> n]

Str(s) == [t |-> "str", s |-> s]

Arr(items) == [t |-> "array", items |-> items]

Obj(offers) == [t |-> "object", offers |-> offers]

\* ToBoolean: undefined, null, 0 and "" are falsy, every object is truthy
Truthy(x) ==
    CASE x.t = "undefined" -> FALSE
      [] x.t = "null" -> FALSE
      [] x.t = "num" -> x.n # 0
      [] x.t = "str" -> x.s # <<>>
      [] OTHER -> TRUE

\* a || b
Or(a, b) == IF Truthy(a) THEN a ELSE b

\* a number n of currency units, in thousandths
Units(n) == n * 1000

----------------------------------------------------------------------------
(* Characters *)

Whitespace == {" ", "\t"}

LowerLetters == <<"a", "b", "c", "d", "e", "f", "g", "h", "i", "j", "k", "l", "m",
                  "n", "o", "p", "q", "r", "s", "t", "u", "v", "w", "x", "y", "z">>

UpperLetters == <<"A", "B", "C", "D", "E", "F", "G", "H", "I", "J", "K", "L", "M",
                  "N", "O", "P", "Q", "R", "S", "T", "U", "V", "W", "X", "Y", "Z">>

LetterIndex(letters, c) == CHOOSE i \in 1..Len(letters) : letters[i] = c

IsUpper(c) == \E i \in 1..Len(UpperLetters) : UpperLetters[i] = c

IsLower(c) == \E i \in 1..Len(LowerLetters) : LowerLetters[i] = c

\* String.prototype.toLowerCase on one character
LowerChar(c) == IF IsUpper(c) THEN LowerLetters[LetterIndex(UpperLetters, c)] ELSE c

\* String.prototype.toUpperCase on one character
UpperChar(c) == IF IsLower(c) THEN UpperLetters[LetterIndex(LowerLetters, c)] ELSE c

toLowerCase(s) == [i \in 1..Len(s) |-> LowerChar(s[i])]

toUpperCase(s) == [i \in 1..Len(s) |-> UpperChar(s[i])]

IsSpace(c) == c \in Whitespace

NotSpace(c) == ~IsSpace(c)

\* s.replace(/\s+/g, ''): every run of whitespace is removed
replaceAllSpace(s) == SelectSeq(s, NotSpace)

\* s.replace(/\s+/, ''): only the first run of whitespace is removed
replaceFirstSpace(s) ==
    IF \A i \in 1..Len(s) : NotSpace(s[i]) THEN s
    ELSE LET b == CHOOSE i \in 1..Len(s) :
                      IsSpace(s[i]) /\ \A j \in 1..(i-1) : NotSpace(s[j])
             e == CHOOSE i \in b..Len(s) :
                      /\ \A j \in b..i : IsSpace(s[j])
                      /\ (i = Len(s) \/ NotSpace(s[i+1]))
         IN  SubSeq(s, 1, b-1) \o SubSeq(s, e+1, Len(s))

createOfferId_firstRunOnly(description) ==
    toLowerCase(replaceFirstSpace(description))

createOfferId(description) ==
    toLowerCase(replaceAllSpace(description))

----------------------------------------------------------------------------
(* parseFloat *)

NaN == [t |-> "nan"]

isNaN(x) == x.t = "nan"

DigitVal == [c \in {"0", "1", "2", "3", "5"} |->
               CASE c = "0" -> 0 [] c = "1" -> 1 [] c = "2" -> 2
                 [] c = "3" -> 3 [] c = "5" -> 5]

IsDigit(c) == c \in DOMAIN DigitVal

RECURSIVE DigitsFrom(_, _)
\* the number of consecutive decimal digits of s from position i on
DigitsFrom(s, i) ==
    IF i <= Len(s) /\ IsDigit(s[i]) THEN 1 + DigitsFrom(s, i + 1) ELSE 0

RECURSIVE SpacesFrom(_, _)
SpacesFrom(s, i) ==
    IF i <= Len(s) /\ IsSpace(s[i]) THEN 1 + SpacesFrom(s, i + 1) ELSE 0

RECURSIVE IntOf(_, _, _)
\* the value of the n digits of s that end at position i + n - 1
IntOf(s, i, n) ==
    IF n = 0 THEN 0 ELSE 10 * IntOf(s, i, n - 1) + DigitVal[s[i + n - 1]]

\* the first three fraction digits of s from position i on, as thousandths
FracOf(s, i, n) ==
    (IF n >= 1 THEN 100 * DigitVal[s[i]] ELSE 0)
    + (IF n >= 2 THEN 10 * DigitVal[s[i + 1]] ELSE 0)
    + (IF n >= 3 THEN DigitVal[s[i + 2]] ELSE 0)

\* parseFloat(s): leading whitespace is skipped, then the longest prefix
\* [+-] digits [. digits] is converted and whatever follows is ignored;
\* NaN when that prefix has no digit.  The result is in thousandths.
\* (Exponents and "Infinity" are outside the modelled alphabet.)
parseFloat(s) ==
    LET b    == 1 + SpacesFrom(s, 1)
        neg  == b <= Len(s) /\ s[b] = "-"
        sgn  == b <= Len(s) /\ s[b] \in {"-", "+"}
        i    == IF sgn THEN b + 1 ELSE b
        n1   == DigitsFrom(s, i)
        dot  == i + n1 <= Len(s) /\ s[i + n1] = "."
        n2   == IF dot THEN DigitsFrom(s, i + n1 + 1) ELSE 0
        mag  == Units(IntOf(s, i, n1)) + FracOf(s, i + n1 + 1, n2)
    IN  IF n1 + n2 = 0 THEN NaN
        ELSE Num(IF neg THEN 0 - mag ELSE mag)

\* Number.prototype.toFixed(2) followed by parseFloat: x (thousandths) is
\* rounded to the nearest hundredth, the larger one when two are as near
toFixed2(x) ==
    LET r == x % 10
    IN  IF r >= 5 THEN x - r + 10 ELSE x - r

----------------------------------------------------------------------------
(* Offer normalizer *)

\* Array.isArray
IsArray(x) == x.t = "array"

parseOffer(rawOffer) ==
    [id                |-> createOfferId(rawOffer.description),
     description       |-> rawOffer.description,
     bankName          |-> rawOffer.bankName,
     paymentInstrument |-> rawOffer.paymentInstrument,
     discountType      |-> rawOffer.discountType,
     discountValue     |-> rawOffer.discountValue,
     maxDiscount       |-> Or(rawOffer.maxDiscount, Null),
     minTxnValue       |-> rawOffer.minTxnValue]

parseOffersFromPayload(flipkartApiResponse) ==
    IF ~Truthy(flipkartApiResponse) \/ ~IsArray(flipkartApiResponse.offers)
    THEN <<>>
    ELSE [i \in 1..Len(flipkartApiResponse.offers.items) |->
             parseOffer(flipkartApiResponse.offers.items[i])]

----------------------------------------------------------------------------
(* The table `offers`: a set of rows with a uniqueness constraint on id *)

IdsOf(st) == {r.id : r \in st}

RECURSIVE InsertIgnore(_, _)
\* INSERT IGNORE INTO offers VALUES ?: the rows are taken in order, a row
\* whose id is already in the table is skipped.
\* The result is <<table afterwards, affectedRows>>.
InsertIgnore(st, values) ==
    IF values = <<>> THEN <<st, 0>>
    ELSE LET row == Head(values)
             dup == row.id \in IdsOf(st)
             nxt == InsertIgnore(IF dup THEN st ELSE st \cup {row}, Tail(values))
         IN  <<nxt[1], nxt[2] + (IF dup THEN 0 ELSE 1)>>

RECURSIVE Replace(_, _)
\* REPLACE INTO offers VALUES ?: a row whose id is already in the table
\* takes the place of the old row.
Replace(st, values) ==
    IF values = <<>> THEN <<st, 0>>
    ELSE LET row == Head(values)
             old == {r \in st : r.id = row.id}
             nxt == Replace((st \ old) \cup {row}, Tail(values))
         IN  <<nxt[1], nxt[2] + 1 + Cardinality(old)>>

\* dbPool.query(sql, [values]) for a bulk write: <<table afterwards, affectedRows>>
dbPoolQuery(sql, st, values) ==
    IF sql = "INSERT IGNORE INTO" THEN InsertIgnore(st, values)
    ELSE Replace(st, values)

\* SELECT * FROM offers WHERE bankName = ? AND paymentInstrument = ?
\* AND minTxnValue < ?
SelectApplicable_strict(st, bank, instrument, amount) ==
    {r \in st : /\ r.bankName = bank
                /\ r.paymentInstrument = instrument
                /\ Units(r.minTxnValue) < amount}

\* SELECT * FROM offers WHERE bankName = ? AND paymentInstrument = ?
\* AND minTxnValue <= ?
SelectApplicable(st, bank, instrument, amount) ==
    {r \in st : /\ r.bankName = bank
                /\ r.paymentInstrument = instrument
                /\ Units(r.minTxnValue) <= amount}

----------------------------------------------------------------------------
(* HTTP responses *)

\* res.status(status).json(body)
Res(status, body) == [status |-> status, body |-> body]

Counts(identified, created) ==
    [noOfOffersIdentified |-> identified, noOfNewOffersCreated |-> created]

Highest(amount) == [highestDiscountAmount |-> amount]

Error(message) == [error |-> message]

----------------------------------------------------------------------------
(* POST /offer *)

\* the rest of the handler once the condition of its first `if` has a
\* value: the 400 answer, the normalizer, the 200 answer for no offers,
\* the bulk write (which throws when the store fails) and the 201 answer
postOfferFrom(flipkartApiResponse, st, dbFails, sql) ==
    IF ~Truthy(flipkartApiResponse)
    THEN [res |-> Res(400, Error("Missing flipkartOfferApiResponse in request body.")),
          store |-> st]
    ELSE LET identifiedOffers == parseOffersFromPayload(flipkartApiResponse)
         IN  IF Len(identifiedOffers) = 0
             THEN [res |-> Res(200, Counts(0, 0)), store |-> st]
             ELSE IF dbFails
             THEN [res |-> Res(500, Error("An internal server error occurred while saving offers.")),
                   store |-> st]
             ELSE LET result == dbPoolQuery(sql, st, identifiedOffers)
                  IN  [res |-> Res(201, Counts(Len(identifiedOffers), result[2])),
                       store |-> result[1]]

\* the handler with the payload read under the name it was bound to, and
\* written with REPLACE INTO
postOffer_replace(body, st, dbFails) ==
    postOfferFrom(body.flipkartOfferApiResponse, st, dbFails, "REPLACE INTO")

\* The handler binds the payload to `flipkartOfferApiResponse` and then
\* reads `flipkartApiResponse`, a name that nothing declares: evaluating
\* it throws a ReferenceError, which the handler's catch answers with 500.
postOffer(body, st, dbFails) ==
    LET env  == [n \in {"flipkartOfferApiResponse"} |-> body.flipkartOfferApiResponse]
        name == "flipkartApiResponse"
    IN  IF name \notin DOMAIN env
        THEN [res |-> Res(500, Error("An internal server error occurred while saving offers.")),
              store |-> st]
        ELSE postOfferFrom(env[name], st, dbFails, "INSERT IGNORE INTO")

----------------------------------------------------------------------------
(* GET /highest-discount *)

\* the body of the forEach callback up to the comparison: the discount of
\* one offer for the amount, in thousandths
currentDiscount(offer, parsedAmount) ==
    IF offer.discountType = "FLAT" THEN Units(offer.discountValue)
    ELSE IF offer.discountType = "PERCENTAGE"
    THEN LET pct == (offer.discountValue * parsedAmount) \div 100
         IN  IF Truthy(offer.maxDiscount) /\ pct > Units(offer.maxDiscount.n)
             THEN Units(offer.maxDiscount.n) ELSE pct
    ELSE 0

RECURSIVE forEachHighest(_, _, _)
\* applicableOffers.forEach(...): highestDiscount after the rows were visited
forEachHighest(rows, parsedAmount, highestDiscount) ==
    IF rows = {} THEN highestDiscount
    ELSE LET offer == CHOOSE r \in rows : TRUE
             cur   == currentDiscount(offer, parsedAmount)
         IN  forEachHighest(rows \ {offer}, parsedAmount,
                            IF cur > highestDiscount THEN cur ELSE highestDiscount)

NoRows == {}

NoDiscounts == [r \in NoRows |-> 0]

getHighestDiscount(query, st, dbFails) ==
    IF \/ ~Truthy(query.amountToPay)
       \/ ~Truthy(query.bankName)
       \/ ~Truthy(query.paymentInstrument)
    THEN [res |-> Res(400, Error("Missing required query parameters: amountToPay, bankName, and paymentInstrument are required.")),
          applicable |-> NoRows, discounts |-> NoDiscounts]
    ELSE LET parsedAmount == parseFloat(query.amountToPay.s)
         IN  IF isNaN(parsedAmount)
             THEN [res |-> Res(400, Error("Invalid amountToPay. Must be a number.")),
                   applicable |-> NoRows, discounts |-> NoDiscounts]
             ELSE IF dbFails
             THEN [res |-> Res(500, Error("An internal server error occurred while calculating discount.")),
                   applicable |-> NoRows, discounts |-> NoDiscounts]
             ELSE LET applicableOffers ==
                          SelectApplicable(st, toUpperCase(query.bankName.s),
                                           toUpperCase(query.paymentInstrument.s),
                                           parsedAmount.n)
                  IN  IF applicableOffers = {}
                      THEN [res |-> Res(200, Highest(0)),
                            applicable |-> NoRows, discounts |-> NoDiscounts]
                      ELSE [res |-> Res(200, Highest(toFixed2(
                                       forEachHighest(applicableOffers, parsedAmount.n, 0)))),
                            applicable |-> applicableOffers,
                            discounts |-> [r \in applicableOffers |->
                                              currentDiscount(r, parsedAmount.n)]]

----------------------------------------------------------------------------
(* The inputs *)

AXIS == <<"A", "X", "I", "S">>

HDFC == <<"H", "D", "F", "C">>

CREDIT == <<"C", "R", "E", "D", "I", "T">>

Raw(description, bankName, discountType, discountValue, maxDiscount, minTxnValue) ==
    [description       |-> description,
     bankName          |-> bankName,
     paymentInstrument |-> CREDIT,
     discountType      |-> discountType,
     discountValue     |-> discountValue,
     maxDiscount       |-> maxDiscount,
     minTxnValue       |-> minTxnValue]

\* "5% off": 10 percent, at most 50, from 500 on
RawPercent == Raw(<<"5", "%", " ", "o", "f", "f">>, AXIS, "PERCENTAGE", 10, Num(50), 500)

\* " 5%  OFF": the same description up to whitespace and case
RawPercentAgain == Raw(<<" ", "5", "%", " ", " ", "O", "F", "F">>, AXIS, "FLAT", 200, Undefined, 0)

\* "flat": 100 off, from 500 on
RawFlat == Raw(<<"f", "l", "a", "t">>, AXIS, "FLAT", 100, Undefined, 500)

RawOffers == {RawPercent, RawPercentAgain, RawFlat}

RECURSIVE SeqsUpTo(_, _)
\* the sequences over S of length at most n
SeqsUpTo(S, n) ==
    IF n = 0 THEN {<<>>}
    ELSE LET shorter == SeqsUpTo(S, n - 1)
         IN  shorter \cup {Append(q, x) : q \in shorter, x \in S}

\* req.body: without the field, with a field that has no offers array, or
\* with an offers array of at most MaxOffers entries
Bodies ==
    {[flipkartOfferApiResponse |-> Undefined],
     [flipkartOfferApiResponse |-> Obj(Undefined)]}
    \cup {[flipkartOfferApiResponse |-> Obj(Arr(items))] :
             items \in SeqsUpTo(RawOffers, MaxOffers)}

Row(id, bankName, discountType, discountValue, maxDiscount, minTxnValue) ==
    [id                |-> id,
     description       |-> id,
     bankName          |-> bankName,
     paymentInstrument |-> CREDIT,
     discountType      |-> discountType,
     discountValue     |-> discountValue,
     maxDiscount       |-> maxDiscount,
     minTxnValue       |-> minTxnValue]

\* rows the table may hold when the service starts
SeedRows ==
    {parseOffer(RawPercent),
     parseOffer(RawFlat),
     Row(<<"f", "l", "a", "t">>, AXIS, "FLAT", 200, Null, 0),
     Row(<<"s", "e", "v", "e", "n">>, AXIS, "PERCENTAGE", 7, Null, 0),
     Row(<<"c", "a", "p", "0">>, AXIS, "PERCENTAGE", 10, Num(0), 0),
     Row(<<"c", "a", "s", "h">>, AXIS, "CASHBACK", 999, Null, 0),
     Row(<<"h", "d", "f", "c">>, HDFC, "FLAT", 30, Null, 0)}

UniqueIds(st) == \A r1, r2 \in st : r1.id = r2.id => r1 = r2

\* the tables of at most MaxRows rows that the uniqueness constraint on id
\* allows
SeedStores == {st \in SUBSET SeedRows : UniqueIds(st) /\ Cardinality(st) <= MaxRows}

\* a query parameter: absent, empty or a string
Amounts ==
    {Undefined, Str(<<>>), Str(<<"a", "b", "c">>), Str(<<"1", "2", "a", "b", "c">>),
     Str(<<"1", "0", "0", "0">>), Str(<<"5", "0", "0">>), Str(<<"0", ".", "3">>)}

BankNames == {Undefined, Str(<<"a", "x", "i", "s">>), Str(HDFC)}

Instruments == {Undefined, Str(<<"c", "r", "e", "d", "i", "t">>)}

Queries ==
    [amountToPay : Amounts, bankName : BankNames, paymentInstrument : Instruments]

NoEntry ==
    [kind |-> "none", req |-> Undefined, dbUp |-> TRUE, before |-> NoRows,
     res |-> Res(0, Undefined), applicable |-> NoRows, discounts |-> NoDiscounts]

----------------------------------------------------------------------------
(* The service *)

Init ==
    /\ store \in SeedStores
    /\ last = NoEntry
    /\ served = 0
    /\ descs = <<>>
    /\ ids = <<>>
    /\ reids = <<>>
    /\ npc = "off"

\* one POST /offer request, served from its first line to its response
PostOffer ==
    /\ npc = "off"
    /\ served < MaxRequests
    /\ \E body \in Bodies, dbFails \in BOOLEAN :
          LET out == postOffer(body, store, dbFails)
          IN  /\ store' = out.store
              /\ last' = [kind |-> "POST", req |-> body, dbUp |-> ~dbFails,
                          before |-> store, res |-> out.res,
                          applicable |-> NoRows, discounts |-> NoDiscounts]
    /\ served' = served + 1
    /\ UNCHANGED <<descs, ids, reids, npc>>

\* one GET /highest-discount request, served from its first line to its
\* response; its one statement reads the table
GetHighestDiscount ==
    /\ npc = "off"
    /\ served < MaxRequests
    /\ \E query \in Queries, dbFails \in BOOLEAN :
          LET out == getHighestDiscount(query, store, dbFails)
          IN  last' = [kind |-> "GET", req |-> query, dbUp |-> ~dbFails,
                       before |-> store, res |-> out.res,
                       applicable |-> out.applicable, discounts |-> out.discounts]
    /\ served' = served + 1
    /\ UNCHANGED <<store, descs, ids, reids, npc>>

Next == PostOffer \/ GetHighestDiscount

Spec == Init /\ [][Next]_vars

----------------------------------------------------------------------------
(* The normalizer on its own *)

Alphabet == {"o", "O", "5", " ", "\t"}

Descriptions == SeqsUpTo(Alphabet, MaxLen)

NormInit ==
    /\ store = NoRows
    /\ last = NoEntry
    /\ served = 0
    /\ descs \in Descriptions \X Descriptions
    /\ ids = <<>>
    /\ reids = <<>>
    /\ npc = "start"

\* both descriptions get their id
Normalize ==
    /\ npc = "start"
    /\ ids' = <<createOfferId(descs[1]), createOfferId(descs[2])>>
    /\ npc' = "normalized"
    /\ UNCHANGED <<store, last, served, descs, reids>>

\* both ids are given to createOfferId again
Renormalize ==
    /\ npc = "normalized"
    /\ reids' = <<createOfferId(ids[1]), createOfferId(ids[2])>>
    /\ npc' = "done"
    /\ UNCHANGED <<store, last, served, descs, ids>>

NormNext == Normalize \/ Renormalize

SpecNorm == NormInit /\ [][NormNext]_vars

----------------------------------------------------------------------------
(* Vocabulary of the properties *)

IsPost(e) == e.kind = "POST"

IsGet(e) == e.kind = "GET"

\* the entries of the offers array of a POST body, <<>> when it has none
ItemsOf(body) ==
    IF body.flipkartOfferApiResponse.t = "object"
       /\ body.flipkartOfferApiResponse.offers.t = "array"
    THEN body.flipkartOfferApiResponse.offers.items
    ELSE <<>>

\* the ids of the entries of a POST body
PayloadIds(body) ==
    {createOfferId(ItemsOf(body)[i].description) : i \in 1..Len(ItemsOf(body))}

RowsWithId(st, i) == {r \in st : r.id = i}

\* a query parameter that is not given, or given empty
Missing(p) == p.t = "undefined" \/ (p.t = "str" /\ Len(p.s) = 0)

\* the whole string is a decimal number: an optional sign, digits, at most
\* one point, at least one digit
ValidNumber(s) ==
    /\ \E i \in 1..Len(s) : IsDigit(s[i])
    /\ \A i \in 1..Len(s) : \/ IsDigit(s[i])
                            \/ s[i] = "."
                            \/ (i = 1 /\ s[i] \in {"+", "-"})
    /\ Cardinality({i \in 1..Len(s) : s[i] = "."}) <= 1

\* the amount of a served query, in thousandths
AmountOf(query) == parseFloat(query.amountToPay.s).n

\* the stored offers a query is about
Matching(st, query) ==
    {r \in st : /\ r.bankName = toUpperCase(query.bankName.s)
                /\ r.paymentInstrument = toUpperCase(query.paymentInstrument.s)
                /\ Units(r.minTxnValue) <= AmountOf(query)}

MaxOf(S) == CHOOSE x \in S : \A y \in S : y <= x

MinOf2(a, b) == IF a <= b THEN a ELSE b

\* x (thousandths) to two decimal places
NearestHundredth(x) ==
    LET lo == (x \div 10) * 10
    IN  IF x - lo < (lo + 10) - x THEN lo ELSE lo + 10

----------------------------------------------------------------------------
(* Properties *)

\* C1: a POST /offer with a non-empty offers array and the store available
\* is answered 201 with noOfOffersIdentified = the number of entries and
\* noOfNewOffersCreated = the number of distinct ids among them that the
\* store did not hold before.
C1_IngestCounts ==
    (IsPost(last) /\ Len(ItemsOf(last.req)) > 0 /\ last.dbUp) =>
        /\ last.res.status = 201
        /\ last.res.body.noOfOffersIdentified = Len(ItemsOf(last.req))
        /\ last.res.body.noOfNewOffersCreated =
               Cardinality(PayloadIds(last.req) \ IdsOf(last.before))
        /\ last.res.body.noOfNewOffersCreated <= last.res.body.noOfOffersIdentified

\* C2: when the same POST /offer payload with a non-empty offers array is
\* served twice in a row, the second call succeeds with
\* noOfNewOffersCreated = 0 and leaves the store as the first call left it.
C2_IdempotentIngest ==
    [][(/\ IsPost(last) /\ Len(ItemsOf(last.req)) > 0 /\ last.dbUp
        /\ IsPost(last') /\ last'.req = last.req /\ last'.dbUp)
       => (/\ last'.res.status = 201
           /\ last'.res.body.noOfNewOffersCreated = 0
           /\ store' = store)]_vars

\* C3: a POST /offer whose body has no flipkartOfferApiResponse is answered
\* 400 with an error message, and the store is unchanged.
C3_MissingField400 ==
    (IsPost(last) /\ last.req.flipkartOfferApiResponse.t = "undefined") =>
        /\ last.res.status = 400
        /\ "error" \in DOMAIN last.res.body
        /\ store = last.before

\* C4: GET /highest-discount answers 400 exactly when a parameter is missing
\* or amountToPay is not a number, whether the store is available or not;
\* every other request with the store available is answered 200 with
\* highestDiscountAmount.
C4_QueryValidation ==
    IsGet(last) =>
        LET q   == last.req
            bad == \/ Missing(q.amountToPay)
                   \/ Missing(q.bankName)
                   \/ Missing(q.paymentInstrument)
                   \/ ~ValidNumber(q.amountToPay.s)
        IN  /\ (last.res.status = 400) <=> bad
            /\ (~bad /\ last.dbUp) =>
                   /\ last.res.status = 200
                   /\ "highestDiscountAmount" \in DOMAIN last.res.body

\* C5 as stated: a GET /highest-discount answered 200 returns the maximum of
\* the per-offer discounts over exactly the stored offers that match the
\* upper-cased bank and instrument and whose minTxnValue <= amount, 0 when
\* none matches; other discount types contribute 0.
C5_HighestIsMaximum ==
    (IsGet(last) /\ last.res.status = 200) =>
        LET M == Matching(last.before, last.req)
        IN  /\ M = {} => last.res.body.highestDiscountAmount = 0
            /\ M # {} =>
                   /\ last.applicable = M
                   /\ last.res.body.highestDiscountAmount =
                          MaxOf({last.discounts[r] : r \in M})
            /\ \A r \in last.applicable :
                   r.discountType \notin {"FLAT", "PERCENTAGE"} => last.discounts[r] = 0

\* C5 amended: a GET /highest-discount answered 200 returns the larger of 0
\* and the maximum of the per-offer discounts over exactly the stored
\* offers that match, rounded to two decimal places; 0 when none matches;
\* other discount types contribute 0.
C5_HighestIsRoundedMaximum ==
    (IsGet(last) /\ last.res.status = 200) =>
        LET M == Matching(last.before, last.req)
        IN  /\ M = {} => last.res.body.highestDiscountAmount = 0
            /\ M # {} =>
                   /\ last.applicable = M
                   /\ last.res.body.highestDiscountAmount =
                          NearestHundredth(MaxOf({0} \cup {last.discounts[r] : r \in M}))
            /\ \A r \in last.applicable :
                   r.discountType \notin {"FLAT", "PERCENTAGE"} => last.discounts[r] = 0

\* a query that two stored offers with different discounts match, answered
\* with the larger, at an amount equal to its minTxnValue
C5_Witness ==
    /\ IsGet(last) /\ last.res.status = 200
    /\ \E r1, r2 \in last.applicable :
          /\ last.discounts[r1] < last.discounts[r2]
          /\ last.res.body.highestDiscountAmount = last.discounts[r2]
          /\ Units(r2.minTxnValue) = AmountOf(last.req)

\* C6: for every matching PERCENTAGE offer the discount computed is
\* min(discountValue/100*amount, maxDiscount) when a maxDiscount is present,
\* a cap of 0 included, and discountValue/100*amount when it is absent.
C6_PercentageCap ==
    (IsGet(last) /\ last.res.status = 200) =>
        \A r \in last.applicable :
            r.discountType = "PERCENTAGE" =>
                LET pct == (r.discountValue * AmountOf(last.req)) \div 100
                IN  last.discounts[r] =
                        IF r.maxDiscount.t = "num"
                        THEN MinOf2(pct, Units(r.maxDiscount.n))
                        ELSE pct

\* the payload is one FLAT offer with a positive discountValue
OneFlatOffer(body) ==
    /\ Len(ItemsOf(body)) = 1
    /\ ItemsOf(body)[1].discountType = "FLAT"
    /\ ItemsOf(body)[1].discountValue > 0

\* C7: on an empty store a POST /offer with one FLAT offer (b, p, v > 0, m)
\* is answered {noOfOffersIdentified: 1, noOfNewOffersCreated: 1}, and with
\* that offer as the only one stored every GET /highest-discount for b and p
\* returns v when amountToPay >= m and 0 when amountToPay < m.
C7_IngestThenQuery ==
    /\ [](( /\ IsPost(last) /\ last.before = {} /\ last.dbUp
            /\ OneFlatOffer(last.req))
          => (/\ last.res = Res(201, Counts(1, 1))
              /\ store = {parseOffer(ItemsOf(last.req)[1])}))
    /\ [][\A f \in store :
             ( /\ store = {f} /\ f.discountType = "FLAT" /\ f.discountValue > 0
               /\ IsGet(last') /\ last'.res.status = 200
               /\ toUpperCase(last'.req.bankName.s) = f.bankName
               /\ toUpperCase(last'.req.paymentInstrument.s) = f.paymentInstrument)
             => last'.res.body.highestDiscountAmount =
                    IF AmountOf(last'.req) >= Units(f.minTxnValue)
                    THEN Units(f.discountValue) ELSE 0]_vars

\* C8: the store holds at most one record per id; a record once stored
\* stays as it is, whatever is ingested later under its id; GET
\* /highest-discount and every request answered 400 or 500 leave the store
\* unchanged.
C8_StoreInvariant ==
    /\ [](\A i \in IdsOf(store) : Cardinality(RowsWithId(store, i)) = 1)
    /\ [][/\ \A r \in store : r \in store'
          /\ (IsGet(last') \/ last'.res.status \in {400, 500}) => store' = store]_vars

\* a POST was served that carries an offer under the id of a stored record
\* with other attributes
C8_Witness ==
    /\ IsPost(last)
    /\ \E i \in 1..Len(ItemsOf(last.req)) : \E r \in last.before :
          /\ createOfferId(ItemsOf(last.req)[i].description) = r.id
          /\ parseOffer(ItemsOf(last.req)[i]) # r
          /\ r \in store

\* C10: when two POST /offer requests that share an offer id are served one
\* after the other in either order, the store holds exactly one record with
\* that id afterwards and the two noOfNewOffersCreated add up to the number
\* of distinct ids that were absent before both.
C10_ConcurrentIngest ==
    [][(/\ IsPost(last) /\ last.dbUp
        /\ IsPost(last') /\ last'.dbUp
        /\ PayloadIds(last.req) \cap PayloadIds(last'.req) # {})
       => (/\ \A i \in PayloadIds(last.req) \cap PayloadIds(last'.req) :
                 Cardinality(RowsWithId(store', i)) = 1
           /\ last.res.status = 201
           /\ last'.res.status = 201
           /\ last.res.body.noOfNewOffersCreated + last'.res.body.noOfNewOffersCreated =
                  Cardinality((PayloadIds(last.req) \cup PayloadIds(last'.req))
                              \ IdsOf(last.before)))]_vars

\* c and d are the same character or the two cases of one letter
SameLetter(c, d) ==
    \/ c = d
    \/ \E i \in 1..Len(LowerLetters) :
          {c, d} = {LowerLetters[i], UpperLetters[i]}

RECURSIVE SameUpToSpaceAndCase(_, _)
\* a and b differ only in whitespace and letter case
SameUpToSpaceAndCase(a, b) ==
    IF Len(a) > 0 /\ IsSpace(a[1]) THEN SameUpToSpaceAndCase(Tail(a), b)
    ELSE IF Len(b) > 0 /\ IsSpace(b[1]) THEN SameUpToSpaceAndCase(a, Tail(b))
    ELSE IF Len(a) = 0 \/ Len(b) = 0 THEN Len(a) = Len(b)
    ELSE SameLetter(a[1], b[1]) /\ SameUpToSpaceAndCase(Tail(a), Tail(b))

\* C9: the id of a description is the description with all whitespace
\* removed and the rest lower-cased; two descriptions get the same id
\* exactly when they differ only in whitespace and letter case; the id of
\* an id is that id.
C9_NormalizedId ==
    (npc \in {"normalized", "done"}) =>
        /\ \A k \in 1..2 :
              /\ \A j \in 1..Len(ids[k]) : ~IsSpace(ids[k][j]) /\ ~IsUpper(ids[k][j])
              /\ SameUpToSpaceAndCase(descs[k], ids[k])
        /\ (ids[1] = ids[2]) <=> SameUpToSpaceAndCase(descs[1], descs[2])
        /\ npc = "done" => reids = ids

\* two different descriptions, one with whitespace and one with an
\* upper-case letter, that got the same id, normalized twice
C9_Witness ==
    /\ npc = "done"
    /\ descs[1] # descs[2]
    /\ ids[1] = ids[2]
    /\ Len(ids[1]) > 1
    /\ \E j \in 1..Len(descs[1]) : IsSpace(descs[1][j])
    /\ \E j \in 1..Len(descs[2]) : IsUpper(descs[2][j])

====
